---- MODULE Spec2Model ----
(***************************************************************************)
(* A model of the delayed-retry scheduler of stevenmatthewt/retry: the     *)
(* Retrier of src/retry.go (lines 1-221), the backoff policies of          *)
(* src/unnamed/part_001, and the mock queue, clock and handler of          *)
(* src/unnamed/part_000 that the tests of src/retry_test.go drive it with. *)
(*                                                                         *)
(* Time.  A time.Time is an integer count of ticks since the start of the  *)
(* run and a time.Duration a signed integer of DurBits bits counting       *)
(* ticks.  Go counts nanoseconds in 64 bits (time.Second = 10^9); TLC's    *)
(* integers have 32 bits, so the tick is 10 ms (Second = 100) and a        *)
(* Duration has 20 bits.  Every operation on a Duration wraps as Go's      *)
(* int64 arithmetic does, and Time.Sub saturates as Go's does.             *)
(***************************************************************************)
EXTENDS Integers, Sequences, FiniteSets, TLC

(***************************************************************************)
(* Bounds of the model.                                                    *)
(***************************************************************************)
\* Job ids 1..NumJobs are submitted with Job(id) in the specification Spec.
NumJobs == 1
\* computeMessageDelay calls made in a row on one envelope (ReconcileSpec).
MaxCalls == 3
\* Steps of the clock between those calls (ReconcileSpec).
MaxClockSteps == 2
\* The largest attempt number a backoff policy is called with (BackoffSpec).
MaxAttemptNumber == 12
\* Transport failures (ReceiveMessage, SendMessage, DeleteMessage) injected.
MaxFaults == 1
\* How many times the Handler or the poll loop is slow (TickLate).
MaxLate == 1
\* The clock stops advancing MaxTimeSeconds seconds after the start.
MaxTimeSeconds == 1200
\* The real queue delivers no envelope whose AttemptedCount has reached
\* MaxCount (only an unlimited budget, MaxAttempts = 0, gets there).
MaxCount == 3
\* The largest budget, Config.MaxAttempts, that Spec configures.
MaxBudget == 2
\* The largest number of pollOnce calls a test case of TestSpec makes.
MaxPolls == 4

(***************************************************************************)
(* Program constants.                                                      *)
(***************************************************************************)
\* const MaxQueueDelaySeconds = 900
MaxQueueDelaySeconds == 900
\* The threshold of computeMessageDelay: additionalDelay.Seconds() > 5
DueThresholdSeconds == 5
\* time.Second, in ticks (scaled: see the head of the module).
Second == 100
\* The width of a time.Duration (scaled: see the head of the module).
DurBits == 20

Minute == 60 * Second
Hour == 60 * Minute

MaxDuration == 2^(DurBits - 1) - 1
MinDuration == -(2^(DurBits - 1))

\* A value as a Duration: two's complement wrap-around at DurBits bits.
WrapDur(x) == ((x + 2^(DurBits - 1)) % (2^DurBits)) - 2^(DurBits - 1)

\* d * n on Durations (n small).
MulDur(d, n) == WrapDur(d * n)

\* d << k on Durations: k doublings, each wrapping.
RECURSIVE ShlDur(_, _)
ShlDur(d, k) == IF k = 0 THEN d ELSE ShlDur(WrapDur(2 * d), k - 1)

\* Time.Sub: t - u as a Duration, saturating at the largest and the smallest.
TimeSub(t, u) ==
    IF t - u > MaxDuration THEN MaxDuration
    ELSE IF t - u < MinDuration THEN MinDuration
    ELSE t - u

\* int64(d.Seconds()): the whole seconds of a Duration, truncated toward zero.
WholeSeconds(d) == IF d >= 0 THEN d \div Second ELSE -((-d) \div Second)

(***************************************************************************)
(* The backoff policies (src/unnamed/part_001).  A policy is a record      *)
(* [kind, seed]; BackoffStrategy applies the one the Config holds.         *)
(***************************************************************************)
\* Exponential backoff shifting by attempt, not attempt - 1.
ExponentialBackoff_ShiftByAttempt(seedDelay, attempt) ==
    IF attempt = 0 THEN 0 ELSE ShlDur(seedDelay, attempt)

ExponentialBackoff(seedDelay, attempt) ==
    IF attempt = 0 THEN 0 ELSE ShlDur(seedDelay, attempt - 1)

\* Linear backoff counting the attempts from 1.
LinearBackoff_OneBased(seedDelay, attempt) == MulDur(seedDelay, attempt + 1)

\* Linear backoff adding the attempt number to the seed.
LinearBackoff_Sum(seedDelay, attempt) ==
    IF attempt = 0 THEN 0 ELSE WrapDur(seedDelay + attempt - 1)

LinearBackoff(seedDelay, attempt) == MulDur(seedDelay, attempt)

\* Constant backoff growing with the attempt.
ConstantBackoff_Growing(seedDelay, attempt) == MulDur(seedDelay, attempt)

ConstantBackoff(seedDelay, attempt) ==
    IF attempt = 0 THEN 0 ELSE seedDelay

\* The policy of the test case "Delay for one hour" (src/retry_test.go).
HourBackoff(attempt) == IF attempt = 0 THEN 0 ELSE Hour

BackoffStrategy(policy, attempt) ==
    CASE policy.kind = "exponential" -> ExponentialBackoff(policy.seed, attempt)
      [] policy.kind = "linear"      -> LinearBackoff(policy.seed, attempt)
      [] policy.kind = "constant"    -> ConstantBackoff(policy.seed, attempt)
      [] policy.kind = "hour"        -> HourBackoff(attempt)

(***************************************************************************)
(* The envelope (type message) and its JSON body.                          *)
(***************************************************************************)
NoMessage == [ID |-> -1, AttemptedCount |-> 0, ReceivedTime |-> 0, NextAttempt |-> 0]

\* json.Marshal(message): the four fields under their JSON names.
Marshal(message) ==
    [kind            |-> "json",
     id              |-> message.ID,
     attempted_count |-> message.AttemptedCount,
     received_time   |-> message.ReceivedTime,
     next_attempt    |-> message.NextAttempt]

\* A body json.Unmarshal reads into a message without an error.
WellFormed(body) == body.kind = "json"

\* json.Unmarshal losing the count (as if the field were not exported).
Unmarshal_ResetCount(body) ==
    [ID             |-> body.id,
     AttemptedCount |-> 0,
     ReceivedTime   |-> body.received_time,
     NextAttempt    |-> body.next_attempt]

\* json.Unmarshal(body, &message) of a well-formed body.
Unmarshal(body) ==
    [ID             |-> body.id,
     AttemptedCount |-> body.attempted_count,
     ReceivedTime   |-> body.received_time,
     NextAttempt    |-> body.next_attempt]

\* Bodies that are no envelope: a message without a body, and one whose body
\* is not the JSON of a message.
NilBody ==
    [kind |-> "nil", id |-> 0, attempted_count |-> 0,
     received_time |-> 0, next_attempt |-> 0]
MalformedBody == [NilBody EXCEPT !.kind = "malformed"]

(***************************************************************************)
(* The state.                                                              *)
(***************************************************************************)
VARIABLES
    harness,      \* "sqs": a Retrier made by New, polling a real queue;
                  \* "mock": a Retrier built by TestRetry on mockSQS, mockClock
    config,       \* Retrier.config: [MaxAttempts, BackoffStrategy]
    test,         \* the test case: [numberOfPolls, succeedOnAttemptNumber]
    now,          \* what Retrier.time.Now() returns
    storage,      \* the messages in the queue: [handle, body, visibleAt]
    mockSQS,      \* the call counters of mockSQS
    nextHandle,   \* the receipt handle the next message sent gets
    InvokedCount, \* per job id, how many times the Handler was invoked for it
    complete,     \* per job id, whether the Handler has returned true for it
    job,          \* per job id, the Job(id) call: [pc, message]
    poll,         \* the poll loop: [pc, sqsMessage, message]
    cyc,          \* what the current (or last) pollOnce call has done
    lastSend,     \* the most recent SendMessage call: [called, DelaySeconds, body]
    faults,       \* transport failures so far: [receive, send, delete]
    late,         \* how many times the Handler or the poll loop has been slow
    dlq,          \* the redrive policy: [received, messages], the handles
                  \* received once and the messages moved to the dead-letter queue
    reconciled,   \* the last computeMessageDelay call made on its own:
                  \* [before, after, skip, at, calls]
    backoffCase,  \* a call of a backoff policy made on its own:
                  \* [attempt, got, called]
    sinceHandler  \* per job id, the SendMessage calls since the Handler was last
                  \* invoked for it (kept by the builder variant):
                  \* [k, at, sends, sum, prevK, prevSends, prevSum]

vars == <<harness, config, test, now, storage, mockSQS, nextHandle, InvokedCount,
          complete, job, poll, cyc, lastSend, faults, late, dlq, reconciled,
          backoffCase, sinceHandler>>

\* The id TestRetry submits, Job(0); Spec submits Job(1) .. Job(NumJobs).
TestJobId == 0
JobIds == 1..NumJobs
Ids == 0..NumJobs

NoSqsMessage == [handle |-> -1, body |-> NilBody, visibleAt |-> 0]

IdlePoll == [pc |-> "idle", sqsMessage |-> NoSqsMessage, message |-> NoMessage]

NewCycle ==
    [received |-> FALSE, handle |-> -1, body |-> NilBody, handler |-> 0, send |-> 0,
     sendOk |-> FALSE, delete |-> 0, deleteOk |-> FALSE, err |-> 0]

\* No Handler invocation yet, and no SendMessage call.
NoHistory ==
    [k |-> 0, at |-> 0, sends |-> 0, sum |-> 0, prevK |-> 0, prevSends |-> 0,
     prevSum |-> 0]

TotalFaults == faults.receive + faults.send + faults.delete

\* A call to the real queue can fail in transport (a bounded number of times);
\* the mock never fails, and the harness "conc" leaves failures out.
FaultsAllowed == harness \in {"sqs", "dlq", "builder"} /\ TotalFaults < MaxFaults

\* The policies Spec configures.
Policies ==
    {[kind |-> "linear", seed |-> Second],
     [kind |-> "constant", seed |-> 10 * Second]}

\* The policies of the test cases of TestRetry (src/retry_test.go).
TestPolicies ==
    {[kind |-> "linear", seed |-> 4 * Second],
     [kind |-> "linear", seed |-> 10 * Second],
     [kind |-> "linear", seed |-> 1000 * Second],
     [kind |-> "hour", seed |-> Hour]}

\* No backoff policy is called on its own.
NoBackoffCase == [attempt |-> 0, got |-> 0, called |-> FALSE]

\* No computeMessageDelay call has been made on its own.
NoReconcile ==
    [before |-> NoMessage, after |-> NoMessage, skip |-> FALSE, at |-> 0, calls |-> 0]

InitCommon ==
    /\ now = 0
    /\ mockSQS = [ReceiveMessageInvokedCount |-> 0,
                  SendMessageInvokedCount |-> 0,
                  DeleteMessageInvokedCount |-> 0]
    /\ InvokedCount = [i \in Ids |-> 0]
    /\ complete = [i \in Ids |-> FALSE]
    /\ job = [i \in Ids |-> [pc |-> "new", message |-> NoMessage]]
    /\ poll = IdlePoll
    /\ cyc = NewCycle
    /\ lastSend = [called |-> FALSE, DelaySeconds |-> 0, body |-> NilBody]
    /\ faults = [receive |-> 0, send |-> 0, delete |-> 0]
    /\ late = 0
    /\ dlq = [received |-> {}, messages |-> {}]
    /\ sinceHandler = [i \in Ids |-> NoHistory]

\* The queue is durable and shared: when the Retrier starts it can hold what
\* another producer wrote: a message without a body, a body that is no JSON,
\* or an envelope (of the id no Job call of Spec uses, at its last attempt
\* within MaxCount) that is due in the future.
ForeignBodies ==
    {NilBody, MalformedBody,
     Marshal([ID |-> TestJobId, AttemptedCount |-> MaxCount - 1, ReceivedTime |-> 0,
              NextAttempt |-> 2 * (DueThresholdSeconds + 1) * Second])}

InitialQueues ==
    {{}} \cup {{[handle |-> 0, body |-> body, visibleAt |-> 0]} : body \in ForeignBodies}

\* New(config): a Retrier on a real queue, its poll loop started.
Init ==
    /\ harness = "sqs"
    /\ config \in [MaxAttempts : 0..MaxBudget, BackoffStrategy : Policies]
    /\ test = [numberOfPolls |-> 0, succeedOnAttemptNumber |-> 0]
    /\ storage \in InitialQueues
    /\ nextHandle = 1
    /\ reconciled = NoReconcile
    /\ backoffCase = NoBackoffCase
    /\ InitCommon

\* TestRetry: a Retrier on mockSQS and mockClock, for one test case.
TestInit ==
    /\ harness = "mock"
    /\ config \in [MaxAttempts : 1..MaxPolls, BackoffStrategy : TestPolicies]
    /\ test \in [numberOfPolls : 0..MaxPolls,
                 succeedOnAttemptNumber : 0..(MaxPolls + 1)]
    /\ storage = {}
    /\ nextHandle = 1
    /\ reconciled = NoReconcile
    /\ backoffCase = NoBackoffCase
    /\ InitCommon

(***************************************************************************)
(* Retrier.computeMessageDelay (src/retry.go 202-221).                     *)
(***************************************************************************)
\* computeMessageDelay leaving NextAttempt where it was.
AdvanceNextAttempt_Stay(nextAttempt, delay) == nextAttempt

\* message.NextAttempt.Add(time.Duration(delay) * time.Second)
AdvanceNextAttempt(nextAttempt, delay) == nextAttempt + MulDur(delay, Second)

\* The threshold check finding every envelope not yet due.
NotYetDue_Always(message, t) == TRUE

\* if additionalDelay.Seconds() > 5 { return message, true }
NotYetDue(message, t) ==
    TimeSub(message.NextAttempt, t) > DueThresholdSeconds * Second

\* computeMessageDelay without message.AttemptedCount++.
computeMessageDelay_NoIncrement(message, t) ==
    IF NotYetDue(message, t)
    THEN [message |-> message, skip |-> TRUE]
    ELSE LET delay == BackoffStrategy(config.BackoffStrategy, message.AttemptedCount + 1)
         IN  [message |-> [message EXCEPT
                             !.NextAttempt = AdvanceNextAttempt(@, delay)],
              skip |-> FALSE]

\* computeMessageDelay counting an attempt also when the envelope is not due.
computeMessageDelay_CountSkips(message, t) ==
    IF NotYetDue(message, t)
    THEN [message |-> [message EXCEPT !.AttemptedCount = @ + 1], skip |-> TRUE]
    ELSE LET count == message.AttemptedCount + 1
             delay == BackoffStrategy(config.BackoffStrategy, count)
         IN  [message |-> [message EXCEPT
                             !.AttemptedCount = count,
                             !.NextAttempt = AdvanceNextAttempt(@, delay)],
              skip |-> FALSE]

computeMessageDelay(message, t) ==
    IF NotYetDue(message, t)
    THEN [message |-> message, skip |-> TRUE]
    ELSE LET count == message.AttemptedCount + 1
             delay == BackoffStrategy(config.BackoffStrategy, count)
         IN  [message |-> [message EXCEPT
                             !.AttemptedCount = count,
                             !.NextAttempt = AdvanceNextAttempt(@, delay)],
              skip |-> FALSE]

(***************************************************************************)
(* Retrier.sendToQueue (src/retry.go 116-136) and the queue's SendMessage. *)
(***************************************************************************)
\* sendToQueue sending every envelope without a delivery delay.
DelaySeconds_NoDelay(message, t) == 0

\* DelaySeconds: aws.Int64(int64(delay.Seconds())), delay = NextAttempt - Now()
DelaySeconds(message, t) == WholeSeconds(TimeSub(message.NextAttempt, t))

\* What SendMessage can answer.  mockSQS always accepts; the real queue
\* refuses a delay outside 0..MaxQueueDelaySeconds and can fail in transport.
SendResults(delaySeconds) ==
    IF harness = "mock" THEN {"ok"}
    ELSE IF delaySeconds < 0 \/ delaySeconds > MaxQueueDelaySeconds THEN {"error"}
    ELSE IF FaultsAllowed THEN {"ok", "error"}
    ELSE {"ok"}

\* The clock after SendMessage: mockSQS adds the delay to the mock clock.
ClockAfterSend(delaySeconds) ==
    IF harness = "mock" THEN now + MulDur(delaySeconds, Second) ELSE now

\* The queue after an accepted SendMessage.
StorageAfterSend(body, delaySeconds) ==
    storage \cup {[handle |-> nextHandle, body |-> body,
                   visibleAt |-> now + delaySeconds * Second]}

\* A transport failure of the send counts as a fault unless the queue
\* refused the delay.
FaultsAfterSend(delaySeconds, result) ==
    IF result = "error" /\ delaySeconds >= 0 /\ delaySeconds <= MaxQueueDelaySeconds
    THEN [faults EXCEPT !.send = @ + 1]
    ELSE faults

\* sendToQueue(message) with the answer `result`: the queue, the clock and
\* the counters after it.
SendToQueue(message, result) ==
    LET body == Marshal(message)
        delaySeconds == DelaySeconds(message, now)
    IN  /\ lastSend' = [called |-> TRUE, DelaySeconds |-> delaySeconds, body |-> body]
        /\ faults' = FaultsAfterSend(delaySeconds, result)
        /\ IF harness = "mock"
           THEN mockSQS' = [mockSQS EXCEPT !.SendMessageInvokedCount = @ + 1]
           ELSE UNCHANGED mockSQS
        /\ IF result = "ok"
           THEN /\ storage' = StorageAfterSend(body, delaySeconds)
                /\ nextHandle' = nextHandle + 1
                /\ now' = ClockAfterSend(delaySeconds)
           ELSE UNCHANGED <<storage, nextHandle, now>>

(***************************************************************************)
(* The Handler: mockFunc.invoke in a test, any function otherwise; in the   *)
(* harness "live" a Handler that returns true from its                     *)
(* succeedOnAttemptNumber-th invocation on.                                *)
(***************************************************************************)
HandlerResults(id) ==
    IF harness \in {"mock", "live"}
    THEN {InvokedCount[id] + 1 >= test.succeedOnAttemptNumber}
    ELSE BOOLEAN

(***************************************************************************)
(* Retrier.Job (src/retry.go 88-99) and Retrier.workMessage (103-114).     *)
(***************************************************************************)
\* Job building its envelope from the one the poll loop holds (as if the
\* envelope were a field of the Retrier that Job and pollOnce share).
NewMessage_Shared(id) ==
    [ID             |-> id,
     AttemptedCount |-> poll.message.AttemptedCount,
     ReceivedTime   |-> now,
     NextAttempt    |-> now + BackoffStrategy(config.BackoffStrategy, 0)]

\* Job starting the count of a new envelope at one.
NewMessage_CountsFromOne(id) ==
    [ID             |-> id,
     AttemptedCount |-> 1,
     ReceivedTime   |-> now,
     NextAttempt    |-> now + BackoffStrategy(config.BackoffStrategy, 0)]

NewMessage(id) ==
    [ID             |-> id,
     AttemptedCount |-> 0,
     ReceivedTime   |-> now,
     NextAttempt    |-> now + BackoffStrategy(config.BackoffStrategy, 0)]

\* workMessage up to the Handler's answer `answer`: computeMessageDelay,
\* then the Handler unless the envelope is not yet due.
WorkMessage(message, answer) ==
    LET r == computeMessageDelay(message, now)
    IN  [message |-> r.message,
         invoked |-> ~r.skip,
         complete |-> ~r.skip /\ answer]

\* Job(id) up to the Handler's answer.
JobCall(id) ==
    /\ job[id].pc = "new"
    /\ \E answer \in HandlerResults(id) :
         LET w == WorkMessage(NewMessage(id), answer)
         IN  /\ job' = [job EXCEPT ![id] =
                          [pc |-> IF w.complete THEN "done" ELSE "send",
                           message |-> w.message]]
             /\ InvokedCount' = [InvokedCount EXCEPT ![id] =
                                   IF w.invoked THEN @ + 1 ELSE @]
             /\ complete' = [complete EXCEPT ![id] = @ \/ w.complete]
    /\ UNCHANGED <<harness, config, test, now, storage, mockSQS, nextHandle,
                   poll, cyc, lastSend, faults, late, dlq,
                   reconciled, backoffCase, sinceHandler>>

\* Job(id): sendToQueue and the return (nil, or the error of the send).
JobSend(id) ==
    /\ job[id].pc = "send"
    /\ \E result \in SendResults(DelaySeconds(job[id].message, now)) :
         /\ SendToQueue(job[id].message, result)
         /\ job' = [job EXCEPT ![id].pc = IF result = "ok" THEN "done" ELSE "failed"]
    /\ UNCHANGED <<harness, config, test, InvokedCount, complete, poll, cyc, late,
                   dlq, reconciled, backoffCase, sinceHandler>>

(***************************************************************************)
(* Retrier.pollOnce (src/retry.go 144-191), one action per call it makes   *)
(* to the queue or to the Handler.                                         *)
(***************************************************************************)
\* The messages ReceiveMessage can return: mockSQS returns any stored one,
\* whatever its delay; the real queue one whose delay has passed (and, to
\* bound the model, no envelope whose AttemptedCount has reached MaxCount).
\* Under a redrive policy of 1 Maximum Receives the queue delivers no message
\* a second time.
Receivable ==
    {m \in storage :
        harness # "mock" =>
            /\ m.visibleAt <= now
            /\ m.handle \notin dlq.received
            /\ WellFormed(m.body) => m.body.attempted_count < MaxCount}

\* The budget check with > for >=.
BudgetExhausted_OffByOne(message) ==
    config.MaxAttempts # 0 /\ message.AttemptedCount > config.MaxAttempts

\* The budget check without the test MaxAttempts != 0.
BudgetExhausted_ZeroIsABudget(message) ==
    message.AttemptedCount >= config.MaxAttempts

\* if MaxAttempts != 0 && int(message.AttemptedCount) >= MaxAttempts { return }
BudgetExhausted(message) ==
    config.MaxAttempts # 0 /\ message.AttemptedCount >= config.MaxAttempts

\* TestRetry calls pollOnce numberOfPolls times, after Job has returned.
PollAllowed ==
    harness = "mock" =>
        /\ job[TestJobId].pc \in {"done", "failed"}
        /\ mockSQS.ReceiveMessageInvokedCount < test.numberOfPolls

CountReceive ==
    IF harness = "mock"
    THEN [mockSQS EXCEPT !.ReceiveMessageInvokedCount = @ + 1]
    ELSE mockSQS

\* ReceiveMessage fails: the ErrorHandler is called and pollOnce returns.
PollReceiveError ==
    /\ poll.pc = "idle"
    /\ FaultsAllowed
    /\ faults' = [faults EXCEPT !.receive = @ + 1]
    /\ cyc' = [NewCycle EXCEPT !.err = 1]
    /\ UNCHANGED <<harness, config, test, now, storage, mockSQS, nextHandle,
                   InvokedCount, complete, job, poll, lastSend, late, dlq,
                   reconciled, backoffCase, sinceHandler>>

\* ReceiveMessage returns no message: pollOnce returns.
PollReceiveNone ==
    /\ poll.pc = "idle"
    /\ PollAllowed
    /\ Receivable = {}
    /\ mockSQS' = CountReceive
    /\ cyc' = NewCycle
    /\ UNCHANGED <<harness, config, test, now, storage, nextHandle,
                   InvokedCount, complete, job, poll, lastSend, faults, late, dlq,
                   reconciled, backoffCase, sinceHandler>>

\* pollOnce deleting the received message before it reads the body.
AfterReceive_DeleteFirst(sqsMessage) ==
    IF ~WellFormed(sqsMessage.body)
    THEN [pc |-> "delete", sqsMessage |-> sqsMessage, message |-> NoMessage]
    ELSE IF BudgetExhausted(Unmarshal(sqsMessage.body)) THEN IdlePoll
    ELSE [pc |-> "work", sqsMessage |-> sqsMessage,
          message |-> Unmarshal(sqsMessage.body)]

\* Where pollOnce stands after it has received sqsMessage: back in the loop
\* when the body is missing or malformed (after the ErrorHandler) or the
\* budget is exhausted, else about to call workMessage.
AfterReceive(sqsMessage) ==
    IF ~WellFormed(sqsMessage.body) THEN IdlePoll
    ELSE IF BudgetExhausted(Unmarshal(sqsMessage.body)) THEN IdlePoll
    ELSE [pc |-> "work", sqsMessage |-> sqsMessage,
          message |-> Unmarshal(sqsMessage.body)]

\* The queue's receive count: under a redrive policy the queue remembers
\* which messages it has delivered.
ReceiveCounted(sqsMessage) ==
    IF harness = "dlq"
    THEN [dlq EXCEPT !.received = @ \cup {sqsMessage.handle}]
    ELSE dlq

\* ReceiveMessage returns one message; pollOnce reads its body and checks the
\* budget.
PollReceive ==
    /\ poll.pc = "idle"
    /\ PollAllowed
    /\ \E sqsMessage \in Receivable :
         /\ poll' = AfterReceive(sqsMessage)
         /\ dlq' = ReceiveCounted(sqsMessage)
         /\ cyc' = [NewCycle EXCEPT
                      !.received = TRUE,
                      !.handle = sqsMessage.handle,
                      !.body = sqsMessage.body,
                      !.err = IF WellFormed(sqsMessage.body) THEN 0 ELSE 1]
    /\ mockSQS' = CountReceive
    /\ UNCHANGED <<harness, config, test, now, storage, nextHandle,
                   InvokedCount, complete, job, lastSend, faults, late,
                   reconciled, backoffCase, sinceHandler>>

\* workMessage sending the envelope whatever the Handler answers.
AfterWork_AlwaysSend(w) == "send"

\* Where pollOnce goes once workMessage has the Handler's answer: workMessage
\* returns nil when the job is complete, else it calls sendToQueue.
AfterWork(w) == IF w.complete THEN "delete" ELSE "send"

\* workMessage(message) up to the Handler's answer.
PollWork ==
    /\ poll.pc = "work"
    /\ \E answer \in HandlerResults(poll.message.ID) :
         LET w == WorkMessage(poll.message, answer)
             id == poll.message.ID
         IN  /\ poll' = [poll EXCEPT !.pc = AfterWork(w), !.message = w.message]
             /\ InvokedCount' = [InvokedCount EXCEPT ![id] =
                                   IF w.invoked THEN @ + 1 ELSE @]
             /\ complete' = [complete EXCEPT ![id] = @ \/ w.complete]
             /\ cyc' = [cyc EXCEPT !.handler = IF w.invoked THEN @ + 1 ELSE @]
    /\ UNCHANGED <<harness, config, test, now, storage, mockSQS, nextHandle,
                   job, lastSend, faults, late, dlq,
                   reconciled, backoffCase, sinceHandler>>

\* pollOnce returning after workMessage, without deleting the received message.
AfterSend_Return(result) == "idle"

\* Where pollOnce goes after workMessage has returned the result of
\* sendToQueue: an error is given to the ErrorHandler, and pollOnce goes on
\* to delete the received message either way.
AfterSend(result) == "delete"

\* workMessage: sendToQueue(message); pollOnce: the ErrorHandler on an error.
PollSend ==
    /\ poll.pc = "send"
    /\ \E result \in SendResults(DelaySeconds(poll.message, now)) :
         /\ SendToQueue(poll.message, result)
         /\ poll' = [poll EXCEPT !.pc = AfterSend(result)]
         /\ cyc' = [cyc EXCEPT !.send = @ + 1,
                               !.sendOk = (result = "ok"),
                               !.err = IF result = "ok" THEN @ ELSE @ + 1]
    /\ UNCHANGED <<harness, config, test, InvokedCount, complete, job, late, dlq,
                   reconciled, backoffCase, sinceHandler>>

\* What DeleteMessage can answer.
DeleteResults ==
    IF FaultsAllowed THEN {"ok", "error"} ELSE {"ok"}

\* A failed delete ending the poll loop (a return out of the for loop).
AfterDelete_StopOnError(result) ==
    IF result = "error" THEN [IdlePoll EXCEPT !.pc = "stopped"] ELSE IdlePoll

\* Where pollOnce goes after deleteMessage: it returns to the loop, after the
\* ErrorHandler when the delete failed.
AfterDelete(result) == IdlePoll

\* pollOnce: deleteMessage(sqsMessage), the ErrorHandler on an error.
PollDelete ==
    /\ poll.pc = "delete"
    /\ \E result \in DeleteResults :
         /\ storage' = IF result = "ok"
                       THEN {m \in storage : m.handle # poll.sqsMessage.handle}
                       ELSE storage
         /\ faults' = IF result = "ok" THEN faults
                      ELSE [faults EXCEPT !.delete = @ + 1]
         /\ poll' = AfterDelete(result)
         /\ cyc' = [cyc EXCEPT !.delete = @ + 1,
                               !.deleteOk = (result = "ok"),
                               !.err = IF result = "ok" THEN @ ELSE @ + 1]
    /\ mockSQS' = IF harness = "mock"
                  THEN [mockSQS EXCEPT !.DeleteMessageInvokedCount = @ + 1]
                  ELSE mockSQS
    /\ UNCHANGED <<harness, config, test, now, nextHandle, InvokedCount,
                   complete, job, lastSend, late, dlq,
                   reconciled, backoffCase, sinceHandler>>

(***************************************************************************)
(* The environment of a Retrier on a real queue.                           *)
(***************************************************************************)
\* The clock reaches the time at which a delayed message becomes visible.
TickToVisible ==
    /\ harness # "mock"
    /\ \E m \in storage :
         /\ m.visibleAt > now
         /\ m.visibleAt <= MaxTimeSeconds * Second
         /\ now' = m.visibleAt
    /\ UNCHANGED <<harness, config, test, storage, mockSQS, nextHandle,
                   InvokedCount, complete, job, poll, cyc, lastSend, faults,
                   late, dlq,
                   reconciled, backoffCase, sinceHandler>>

\* Time passes, a few seconds (more than the due threshold), while the Handler
\* runs (the call is between the Handler and sendToQueue) or while a visible
\* message waits for the poll loop to receive it.
TickStep == (DueThresholdSeconds + 1) * Second

SomethingIsSlow ==
    \/ poll.pc = "send"
    \/ \E id \in JobIds : job[id].pc = "send"
    \/ poll.pc = "idle" /\ Receivable # {}

TickLate ==
    /\ harness # "mock"
    /\ late < MaxLate
    /\ SomethingIsSlow
    /\ now + TickStep <= MaxTimeSeconds * Second
    /\ now' = now + TickStep
    /\ late' = late + 1
    /\ UNCHANGED <<harness, config, test, storage, mockSQS, nextHandle,
                   InvokedCount, complete, job, poll, cyc, lastSend, faults, dlq,
                   reconciled, backoffCase, sinceHandler>>

\* The redrive policy of the README (exactly 1 Maximum Receives): a message
\* that was received once and not deleted is moved to the dead-letter queue
\* when the poll loop asks for a message again.
Redrive ==
    /\ harness = "dlq"
    /\ poll.pc = "idle"
    /\ \E m \in storage :
         /\ m.handle \in dlq.received
         /\ storage' = storage \ {m}
         /\ dlq' = [dlq EXCEPT !.messages = @ \cup {m}]
    /\ UNCHANGED <<harness, config, test, now, mockSQS, nextHandle, InvokedCount,
                   complete, job, poll, cyc, lastSend, faults, late, reconciled, backoffCase, sinceHandler>>

(***************************************************************************)
(* The specifications.                                                     *)
(***************************************************************************)
\* A Retrier on a real queue: Job calls from outside, the poll loop, the
\* clock, transport failures and other producers.
Next ==
    \/ \E id \in JobIds : JobCall(id)
    \/ \E id \in JobIds : JobSend(id)
    \/ PollReceiveError
    \/ PollReceiveNone
    \/ PollReceive
    \/ PollWork
    \/ PollSend
    \/ PollDelete
    \/ TickToVisible
    \/ TickLate

Spec == Init /\ [][Next]_vars

\* TestRetry: Job(0), then numberOfPolls calls of pollOnce.
TestNext ==
    \/ JobCall(TestJobId)
    \/ JobSend(TestJobId)
    \/ PollReceiveNone
    \/ PollReceive
    \/ PollWork
    \/ PollSend
    \/ PollDelete

TestSpec == TestInit /\ [][TestNext]_vars

\* New(config) on a queue configured as the README requires, with a
\* dead-letter queue and a redrive policy of exactly 1 Maximum Receives.
DlqInit ==
    /\ harness = "dlq"
    /\ config \in [MaxAttempts : 0..MaxBudget, BackoffStrategy : Policies]
    /\ test = [numberOfPolls |-> 0, succeedOnAttemptNumber |-> 0]
    /\ storage \in InitialQueues
    /\ nextHandle = 1
    /\ reconciled = NoReconcile
    /\ backoffCase = NoBackoffCase
    /\ InitCommon

DlqNext ==
    \/ \E id \in JobIds : JobCall(id)
    \/ \E id \in JobIds : JobSend(id)
    \/ PollReceiveError
    \/ PollReceiveNone
    \/ PollReceive
    \/ PollWork
    \/ PollSend
    \/ PollDelete
    \/ TickToVisible
    \/ TickLate
    \/ Redrive

DlqSpec == DlqInit /\ [][DlqNext]_vars

\* The poll loop is a goroutine of its own (go b.poll()): a pollOnce call
\* that has received a message goes on, as long as the Handler returns.
PollStep == PollWork \/ PollSend \/ PollDelete

FairSpec == Spec /\ WF_vars(PollStep)

(***************************************************************************)
(* Job calls from several call sites while the poll loop runs: two jobs,   *)
(* every interleaving of the steps of their Job calls and of pollOnce, no  *)
(* transport failure.                                                      *)
(***************************************************************************)
ConcInit ==
    /\ harness = "conc"
    /\ config \in [MaxAttempts : {0, MaxBudget},
                   BackoffStrategy : {[kind |-> "linear", seed |-> Second]}]
    /\ test = [numberOfPolls |-> 0, succeedOnAttemptNumber |-> 0]
    /\ storage = {}
    /\ nextHandle = 1
    /\ reconciled = NoReconcile
    /\ backoffCase = NoBackoffCase
    /\ InitCommon

ConcNext ==
    \/ \E id \in Ids : JobCall(id)
    \/ \E id \in Ids : JobSend(id)
    \/ PollReceiveNone
    \/ PollReceive
    \/ PollWork
    \/ PollSend
    \/ PollDelete
    \/ TickToVisible
    \/ TickLate

ConcSpec == ConcInit /\ [][ConcNext]_vars

(***************************************************************************)
(* computeMessageDelay on its own: an envelope and a policy drawn from     *)
(* bounded sets, the function applied to its own result again and again    *)
(* while the clock stands or advances.                                     *)
(***************************************************************************)
ReconcilePolicies ==
    {[kind |-> "linear", seed |-> Second],
     [kind |-> "exponential", seed |-> Second],
     [kind |-> "constant", seed |-> Minute],
     [kind |-> "hour", seed |-> Hour]}

\* NextAttempt of the envelopes, relative to the start of the clock: overdue,
\* due, at the threshold, just over it, and far in the future.
ReconcileNextAttempts ==
    {-(10 * Second), 0, DueThresholdSeconds * Second,
     DueThresholdSeconds * Second + 1, 2 * TickStep, 1000 * Second}

ReconcileEnvelopes ==
    {[ID |-> TestJobId, AttemptedCount |-> count, ReceivedTime |-> 0,
      NextAttempt |-> nextAttempt] :
        count \in 0..(MaxCount - 1), nextAttempt \in ReconcileNextAttempts}

ReconcileInit ==
    /\ harness = "reconcile"
    /\ config \in [MaxAttempts : {0}, BackoffStrategy : ReconcilePolicies]
    /\ test = [numberOfPolls |-> 0, succeedOnAttemptNumber |-> 0]
    /\ storage = {}
    /\ nextHandle = 1
    /\ reconciled \in {[NoReconcile EXCEPT !.before = message, !.after = message] :
                          message \in ReconcileEnvelopes}
    /\ backoffCase = NoBackoffCase
    /\ InitCommon

\* message, skip := r.computeMessageDelay(message), on the result of the
\* call before.
Reconcile ==
    /\ harness = "reconcile"
    /\ reconciled.calls < MaxCalls
    /\ reconciled' =
         LET r == computeMessageDelay(reconciled.after, now)
         IN  [before |-> reconciled.after, after |-> r.message, skip |-> r.skip,
              at |-> now, calls |-> reconciled.calls + 1]
    /\ UNCHANGED <<harness, config, test, now, storage, mockSQS, nextHandle,
                   InvokedCount, complete, job, poll, cyc, lastSend, faults, late,
                   dlq, backoffCase, sinceHandler>>

\* r.time.Now() moves on between two calls.
ReconcileTick ==
    /\ harness = "reconcile"
    /\ now < MaxClockSteps * TickStep
    /\ now' = now + TickStep
    /\ UNCHANGED <<harness, config, test, storage, mockSQS, nextHandle,
                   InvokedCount, complete, job, poll, cyc, lastSend, faults, late,
                   dlq, reconciled, backoffCase, sinceHandler>>

ReconcileNext ==
    \/ Reconcile
    \/ ReconcileTick

ReconcileSpec == ReconcileInit /\ [][ReconcileNext]_vars

(***************************************************************************)
(* A stock backoff policy on its own (TestExponential, TestLinear,         *)
(* TestConstant of src/unnamed/part_000): a policy, a seed delay and an    *)
(* attempt number drawn from bounded sets, the policy called once.         *)
(***************************************************************************)
\* Seed delays: none, one tick, those of the tests that a Duration of the
\* model holds, and a negative one.
SeedDelays == {0, 1, Second, Minute, 3 * Minute, Hour, -Second}

StockPolicies ==
    [kind : {"exponential", "linear", "constant"}, seed : SeedDelays]

BackoffInit ==
    /\ harness = "backoff"
    /\ config \in [MaxAttempts : {0}, BackoffStrategy : StockPolicies]
    /\ test = [numberOfPolls |-> 0, succeedOnAttemptNumber |-> 0]
    /\ storage = {}
    /\ nextHandle = 1
    /\ reconciled = NoReconcile
    /\ backoffCase \in [attempt : 0..MaxAttemptNumber, got : {0}, called : {FALSE}]
    /\ InitCommon

\* got := ExponentialBackoff(test.seedDelay)(test.attempt), and the like.
CallBackoff ==
    /\ harness = "backoff"
    /\ ~backoffCase.called
    /\ backoffCase' =
         [backoffCase EXCEPT
            !.got = BackoffStrategy(config.BackoffStrategy, backoffCase.attempt),
            !.called = TRUE]
    /\ UNCHANGED <<harness, config, test, now, storage, mockSQS, nextHandle,
                   InvokedCount, complete, job, poll, cyc, lastSend, faults, late,
                   dlq, reconciled, sinceHandler>>

BackoffNext == CallBackoff

BackoffSpec == BackoffInit /\ [][BackoffNext]_vars

(***************************************************************************)
(* The carried-remainder variant (src/retry.go 223-481): type builder.  An *)
(* envelope carries AdditionalDelay instead of a time, a delay is a uint   *)
(* of whole seconds, and pollOnce deletes the received message before it   *)
(* works it.  The values of the model stay far below the width of uint.    *)
(***************************************************************************)
\* The latest time the clock of the builder harness reaches.
MaxBuilderTimeSeconds == 3600

\* The policies of the variant: func(attempt uint) uint.
builder_ExponentialBackoff(seedDelay, attempt) ==
    IF attempt = 0 THEN 0 ELSE seedDelay * 2^(attempt - 1)

builder_LinearBackoff(seedDelay, attempt) == seedDelay * attempt

builder_ConstantBackoff(seedDelay, attempt) == seedDelay

builder_BackoffStrategy(policy, attempt) ==
    CASE policy.kind = "exponential" -> builder_ExponentialBackoff(policy.seed, attempt)
      [] policy.kind = "linear"      -> builder_LinearBackoff(policy.seed, attempt)
      [] policy.kind = "constant"    -> builder_ConstantBackoff(policy.seed, attempt)

\* Policies (seeds in seconds) below the ceiling, above it, and above twice it.
builder_Policies ==
    {[kind |-> "constant", seed |-> 300],
     [kind |-> "linear", seed |-> 1000],
     [kind |-> "exponential", seed |-> 1900]}

\* type message struct { Message; AdditionalDelay uint `json:"accumulated_delay"` }
builder_NoMessage == [ID |-> -1, AttemptedCount |-> 0, AdditionalDelay |-> 0]

builder_Marshal(message) ==
    [kind              |-> "json",
     id                |-> message.ID,
     attempted_count   |-> message.AttemptedCount,
     accumulated_delay |-> message.AdditionalDelay]

builder_Unmarshal(body) ==
    [ID              |-> body.id,
     AttemptedCount  |-> body.attempted_count,
     AdditionalDelay |-> body.accumulated_delay]

builder_NilBody ==
    [kind |-> "nil", id |-> 0, attempted_count |-> 0, accumulated_delay |-> 0]
builder_MalformedBody == [builder_NilBody EXCEPT !.kind = "malformed"]

\* computeMessageDelay capping the delay and dropping the remainder.
builder_computeMessageDelay_NoCarry(message) ==
    IF message.AdditionalDelay # 0
    THEN IF message.AdditionalDelay > MaxQueueDelaySeconds
         THEN [message |-> [message EXCEPT !.AdditionalDelay = @ - MaxQueueDelaySeconds],
               delay |-> MaxQueueDelaySeconds, skip |-> TRUE]
         ELSE [message |-> [message EXCEPT !.AdditionalDelay = 0],
               delay |-> message.AdditionalDelay, skip |-> TRUE]
    ELSE LET count == message.AttemptedCount + 1
             delay == builder_BackoffStrategy(config.BackoffStrategy, count)
         IN  IF delay > MaxQueueDelaySeconds
             THEN [message |-> [message EXCEPT !.AttemptedCount = count],
                   delay |-> MaxQueueDelaySeconds, skip |-> FALSE]
             ELSE [message |-> [message EXCEPT !.AttemptedCount = count],
                   delay |-> delay, skip |-> FALSE]

\* builder.computeMessageDelay (src/retry.go 411-436): the envelope, the delay
\* of the next send and whether the Handler is skipped.
builder_computeMessageDelay(message) ==
    IF message.AdditionalDelay # 0
    THEN IF message.AdditionalDelay > MaxQueueDelaySeconds
         THEN [message |-> [message EXCEPT !.AdditionalDelay = @ - MaxQueueDelaySeconds],
               delay |-> MaxQueueDelaySeconds, skip |-> TRUE]
         ELSE [message |-> [message EXCEPT !.AdditionalDelay = 0],
               delay |-> message.AdditionalDelay, skip |-> TRUE]
    ELSE LET count == message.AttemptedCount + 1
             delay == builder_BackoffStrategy(config.BackoffStrategy, count)
         IN  IF delay > MaxQueueDelaySeconds
             THEN [message |-> [message EXCEPT
                                  !.AttemptedCount = count,
                                  !.AdditionalDelay = delay - MaxQueueDelaySeconds],
                   delay |-> MaxQueueDelaySeconds, skip |-> FALSE]
             ELSE [message |-> [message EXCEPT !.AttemptedCount = count],
                   delay |-> delay, skip |-> FALSE]

\* sendToQueue taking from the delay the seconds that passed since the Handler
\* was invoked.
builder_DelaySeconds_LessElapsed(delay, elapsed) ==
    IF elapsed >= delay THEN 0 ELSE delay - elapsed

\* DelaySeconds: aws.Int64(int64(delay)): the delay computeMessageDelay chose,
\* whatever time has passed since.
builder_DelaySeconds(delay, elapsed) == delay

\* The whole seconds since the Handler was last invoked for the job.
ElapsedSeconds(id) == WholeSeconds(now - sinceHandler[id].at)

builder_IdlePoll ==
    [pc |-> "idle", sqsMessage |-> NoSqsMessage, message |-> builder_NoMessage,
     delay |-> 0]

\* What another producer can have left in the queue: a message without a
\* body, a body that is no JSON, or an envelope with more than a ceiling of
\* AdditionalDelay left.
builder_ForeignBodies ==
    {builder_NilBody, builder_MalformedBody,
     builder_Marshal([ID |-> TestJobId, AttemptedCount |-> MaxCount - 1,
                      AdditionalDelay |-> MaxQueueDelaySeconds + 100])}

builder_InitialQueues ==
    {{}} \cup {{[handle |-> 0, body |-> body, visibleAt |-> 0]} :
                  body \in builder_ForeignBodies}

\* New(config) of the variant: a builder on a real queue, its poll loop started.
builder_Init ==
    /\ harness = "builder"
    /\ config \in [MaxAttempts : 0..MaxBudget, BackoffStrategy : builder_Policies]
    /\ test = [numberOfPolls |-> 0, succeedOnAttemptNumber |-> 0]
    /\ now = 0
    /\ storage \in builder_InitialQueues
    /\ mockSQS = [ReceiveMessageInvokedCount |-> 0,
                  SendMessageInvokedCount |-> 0,
                  DeleteMessageInvokedCount |-> 0]
    /\ nextHandle = 1
    /\ InvokedCount = [i \in Ids |-> 0]
    /\ complete = [i \in Ids |-> FALSE]
    /\ job = [i \in Ids |-> [pc |-> "new", message |-> builder_NoMessage, delay |-> 0]]
    /\ poll = builder_IdlePoll
    /\ cyc = NewCycle
    /\ lastSend = [called |-> FALSE, DelaySeconds |-> 0, body |-> builder_NilBody]
    /\ faults = [receive |-> 0, send |-> 0, delete |-> 0]
    /\ late = 0
    /\ dlq = [received |-> {}, messages |-> {}]
    /\ reconciled = NoReconcile
    /\ backoffCase = NoBackoffCase
    /\ sinceHandler = [i \in Ids |-> NoHistory]

\* builder.Job (src/retry.go 289-299): the envelope of a new job.
builder_NewMessage(id) == [ID |-> id, AttemptedCount |-> 0, AdditionalDelay |-> 0]

\* builder.workMessage (303-320) up to the Handler's answer `answer`.
builder_WorkMessage(message, answer) ==
    LET r == builder_computeMessageDelay(message)
    IN  [message |-> r.message,
         delay |-> r.delay,
         invoked |-> ~r.skip,
         complete |-> ~r.skip /\ answer]

\* The history of the job once the Handler has been invoked with attempt k.
HandlerInvoked(history, k) ==
    [k |-> k, at |-> now, sends |-> 0, sum |-> 0,
     prevK |-> history.k, prevSends |-> history.sends, prevSum |-> history.sum]

HistoryAfterWork(id, w) ==
    IF w.invoked
    THEN [sinceHandler EXCEPT ![id] = HandlerInvoked(@, w.message.AttemptedCount)]
    ELSE sinceHandler

\* Job(id) up to the Handler's answer.
builder_JobCall(id) ==
    /\ harness = "builder"
    /\ job[id].pc = "new"
    /\ \E answer \in HandlerResults(id) :
         LET w == builder_WorkMessage(builder_NewMessage(id), answer)
         IN  /\ job' = [job EXCEPT ![id] =
                          [pc |-> IF w.complete THEN "done" ELSE "send",
                           message |-> w.message,
                           delay |-> w.delay]]
             /\ InvokedCount' = [InvokedCount EXCEPT ![id] =
                                   IF w.invoked THEN @ + 1 ELSE @]
             /\ complete' = [complete EXCEPT ![id] = @ \/ w.complete]
             /\ sinceHandler' = HistoryAfterWork(id, w)
    /\ UNCHANGED <<harness, config, test, now, storage, mockSQS, nextHandle,
                   poll, cyc, lastSend, faults, late, dlq, reconciled, backoffCase>>

\* builder.sendToQueue(message, delay) (322-340) with the answer `result`.
builder_SendToQueue(message, delay, result) ==
    LET body == builder_Marshal(message)
        id == message.ID
        delaySeconds == builder_DelaySeconds(delay, ElapsedSeconds(id))
    IN  /\ lastSend' = [called |-> TRUE, DelaySeconds |-> delaySeconds, body |-> body]
        /\ faults' = FaultsAfterSend(delaySeconds, result)
        /\ sinceHandler' = [sinceHandler EXCEPT
                              ![id].sends = @ + 1,
                              ![id].sum = @ + delaySeconds]
        /\ IF result = "ok"
           THEN /\ storage' = StorageAfterSend(body, delaySeconds)
                /\ nextHandle' = nextHandle + 1
           ELSE UNCHANGED <<storage, nextHandle>>

\* Job(id): sendToQueue and the return.
builder_JobSend(id) ==
    /\ harness = "builder"
    /\ job[id].pc = "send"
    /\ \E result \in SendResults(builder_DelaySeconds(job[id].delay, ElapsedSeconds(id))) :
         /\ builder_SendToQueue(job[id].message, job[id].delay, result)
         /\ job' = [job EXCEPT ![id].pc = IF result = "ok" THEN "done" ELSE "failed"]
    /\ UNCHANGED <<harness, config, test, now, mockSQS, InvokedCount, complete,
                   poll, cyc, late, dlq, reconciled, backoffCase>>

\* builder.pollOnce (348-400) after ReceiveMessage returned sqsMessage: back in
\* the loop when the body is missing or malformed or the budget is exhausted,
\* else about to delete the message.
builder_AfterReceive(sqsMessage) ==
    IF ~WellFormed(sqsMessage.body) THEN builder_IdlePoll
    ELSE IF BudgetExhausted(builder_Unmarshal(sqsMessage.body)) THEN builder_IdlePoll
    ELSE [pc |-> "delete", sqsMessage |-> sqsMessage,
          message |-> builder_Unmarshal(sqsMessage.body), delay |-> 0]

builder_PollReceive ==
    /\ harness = "builder"
    /\ poll.pc = "idle"
    /\ \E sqsMessage \in Receivable :
         /\ poll' = builder_AfterReceive(sqsMessage)
         /\ cyc' = [NewCycle EXCEPT
                      !.received = TRUE,
                      !.handle = sqsMessage.handle,
                      !.body = sqsMessage.body,
                      !.err = IF WellFormed(sqsMessage.body) THEN 0 ELSE 1]
    /\ UNCHANGED <<harness, config, test, now, storage, mockSQS, nextHandle,
                   InvokedCount, complete, job, lastSend, faults, late, dlq,
                   reconciled, backoffCase, sinceHandler>>

\* pollOnce: deleteMessage(sqsMessage); on an error the ErrorHandler and the
\* return, else workMessage.
builder_AfterDelete(result) ==
    IF result = "ok" THEN [poll EXCEPT !.pc = "work"] ELSE builder_IdlePoll

builder_PollDelete ==
    /\ harness = "builder"
    /\ poll.pc = "delete"
    /\ \E result \in DeleteResults :
         /\ storage' = IF result = "ok"
                       THEN {m \in storage : m.handle # poll.sqsMessage.handle}
                       ELSE storage
         /\ faults' = IF result = "ok" THEN faults
                      ELSE [faults EXCEPT !.delete = @ + 1]
         /\ poll' = builder_AfterDelete(result)
         /\ cyc' = [cyc EXCEPT !.delete = @ + 1,
                               !.deleteOk = (result = "ok"),
                               !.err = IF result = "ok" THEN @ ELSE @ + 1]
    /\ UNCHANGED <<harness, config, test, now, mockSQS, nextHandle, InvokedCount,
                   complete, job, lastSend, late, dlq, reconciled, backoffCase,
                   sinceHandler>>

\* workMessage(message) up to the Handler's answer: it returns nil when the job
\* is complete, else it goes on to sendToQueue.
builder_AfterWork(w) ==
    IF w.complete THEN builder_IdlePoll
    ELSE [poll EXCEPT !.pc = "send", !.message = w.message, !.delay = w.delay]

builder_PollWork ==
    /\ harness = "builder"
    /\ poll.pc = "work"
    /\ \E answer \in HandlerResults(poll.message.ID) :
         LET w == builder_WorkMessage(poll.message, answer)
             id == poll.message.ID
         IN  /\ poll' = builder_AfterWork(w)
             /\ InvokedCount' = [InvokedCount EXCEPT ![id] =
                                   IF w.invoked THEN @ + 1 ELSE @]
             /\ complete' = [complete EXCEPT ![id] = @ \/ w.complete]
             /\ cyc' = [cyc EXCEPT !.handler = IF w.invoked THEN @ + 1 ELSE @]
             /\ sinceHandler' = HistoryAfterWork(id, w)
    /\ UNCHANGED <<harness, config, test, now, storage, mockSQS, nextHandle,
                   job, lastSend, faults, late, dlq, reconciled, backoffCase>>

\* workMessage: sendToQueue(message, delay); pollOnce: the ErrorHandler on an
\* error, and the return.
builder_PollSend ==
    /\ harness = "builder"
    /\ poll.pc = "send"
    /\ \E result \in SendResults(builder_DelaySeconds(poll.delay,
                                                     ElapsedSeconds(poll.message.ID))) :
         /\ builder_SendToQueue(poll.message, poll.delay, result)
         /\ cyc' = [cyc EXCEPT !.send = @ + 1,
                               !.sendOk = (result = "ok"),
                               !.err = IF result = "ok" THEN @ ELSE @ + 1]
    /\ poll' = builder_IdlePoll
    /\ UNCHANGED <<harness, config, test, now, mockSQS, InvokedCount, complete,
                   job, late, dlq, reconciled, backoffCase>>

\* The clock reaches the time at which a delayed message becomes visible.
builder_TickToVisible ==
    /\ harness = "builder"
    /\ \E m \in storage :
         /\ m.visibleAt > now
         /\ m.visibleAt <= MaxBuilderTimeSeconds * Second
         /\ now' = m.visibleAt
    /\ UNCHANGED <<harness, config, test, storage, mockSQS, nextHandle,
                   InvokedCount, complete, job, poll, cyc, lastSend, faults,
                   late, dlq, reconciled, backoffCase, sinceHandler>>

\* workMessage has the Handler's answer and has not yet called sendToQueue.
HandlerIsRunning ==
    \/ poll.pc = "send" /\ cyc.handler = 1
    \/ \E id \in JobIds : job[id].pc = "send"

\* The Handler takes a few seconds.
builder_HandlerRuns ==
    /\ harness = "builder"
    /\ late < MaxLate
    /\ HandlerIsRunning
    /\ now' = now + TickStep
    /\ late' = late + 1
    /\ UNCHANGED <<harness, config, test, storage, mockSQS, nextHandle,
                   InvokedCount, complete, job, poll, cyc, lastSend, faults, dlq,
                   reconciled, backoffCase, sinceHandler>>

builder_Next ==
    \/ \E id \in JobIds : builder_JobCall(id)
    \/ \E id \in JobIds : builder_JobSend(id)
    \/ PollReceiveError
    \/ PollReceiveNone
    \/ builder_PollReceive
    \/ builder_PollDelete
    \/ builder_PollWork
    \/ builder_PollSend
    \/ builder_TickToVisible
    \/ builder_HandlerRuns

BuilderSpec == builder_Init /\ [][builder_Next]_vars

(***************************************************************************)
(* The two variants side by side: a Retrier (as in ConcSpec) or a builder. *)
(***************************************************************************)
VariantsInit == ConcInit \/ builder_Init

RetrierStep == harness = "conc" /\ ConcNext

builderStep == harness = "builder" /\ builder_Next

VariantsNext ==
    \/ RetrierStep
    \/ builderStep

VariantsSpec == VariantsInit /\ [][VariantsNext]_vars

(***************************************************************************)
(* A Retrier on a queue without transport failures, with a Handler that    *)
(* returns true from a given invocation on, the poll loop running, the     *)
(* queue delivering what becomes visible and every Job call returning.     *)
(***************************************************************************)
LivePolicies ==
    {[kind |-> "linear", seed |-> Second],
     [kind |-> "exponential", seed |-> Second],
     [kind |-> "constant", seed |-> 10 * Second]}

LiveInit ==
    /\ harness = "live"
    /\ config \in [MaxAttempts : 0..MaxBudget, BackoffStrategy : LivePolicies]
    /\ test \in [numberOfPolls : {0}, succeedOnAttemptNumber : 1..(MaxBudget + 1)]
    /\ storage = {}
    /\ nextHandle = 1
    /\ reconciled = NoReconcile
    /\ backoffCase = NoBackoffCase
    /\ InitCommon

LiveNext ==
    \/ \E id \in JobIds : JobCall(id)
    \/ \E id \in JobIds : JobSend(id)
    \/ PollReceiveNone
    \/ PollReceive
    \/ PollWork
    \/ PollSend
    \/ PollDelete
    \/ TickToVisible
    \/ TickLate

LiveFairness ==
    /\ WF_vars(PollReceive)
    /\ WF_vars(PollStep)
    /\ WF_vars(TickToVisible)
    /\ \A id \in JobIds : WF_vars(JobCall(id)) /\ WF_vars(JobSend(id))

LiveSpec == LiveInit /\ [][LiveNext]_vars /\ LiveFairness

(***************************************************************************)
(* Vocabulary of the claims.                                               *)
(***************************************************************************)
\* The budget is configured and the Handler has used it up for the job.
Exhausted(id) ==
    config.MaxAttempts # 0 /\ InvokedCount[id] >= config.MaxAttempts

\* The job was submitted (Job did not return an error), the Handler has not
\* returned true for it and its budget is not exhausted.
Active(id) ==
    /\ job[id].pc \in {"send", "done"}
    /\ ~complete[id]
    /\ ~Exhausted(id)

\* The envelope is held by a Job or pollOnce call that has not yet handed it
\* to the queue.
InFlight(id) ==
    \/ job[id].pc = "send"
    \/ /\ poll.message.ID = id
       /\ \/ poll.pc \in {"work", "send"}
          \/ poll.pc = "delete" /\ ~cyc.sendOk

\* The messages in the queue that hold the job's envelope, the one the
\* current pollOnce call has received aside.
RestingMessages(id) ==
    {m \in storage :
        /\ WellFormed(m.body)
        /\ m.body.id = id
        /\ ~(poll.pc # "idle" /\ m.handle = poll.sqsMessage.handle)}

Resting(id) == RestingMessages(id) # {}

\* The message the current (or last) pollOnce call received is in the queue.
ReceivedStillStored == \E m \in storage : m.handle = cyc.handle

\* The pollOnce call received an envelope whose budget is exhausted.
CycleHitBudget ==
    /\ cyc.received
    /\ WellFormed(cyc.body)
    /\ config.MaxAttempts # 0
    /\ cyc.body.attempted_count >= config.MaxAttempts

(***************************************************************************)
(* C1.  At every point of every execution the envelope of a job that is    *)
(* still active is in exactly one place: in flight (held by the Job or     *)
(* pollOnce call working on it) or resting in the queue, never both and    *)
(* never neither.  The code violates it: after a failed SendMessage        *)
(* pollOnce still deletes the received message (the envelope is nowhere),  *)
(* and after a failed DeleteMessage the envelope is in the queue twice.    *)
(***************************************************************************)
C1_EnvelopeInExactlyOnePlace ==
    \A id \in JobIds : Active(id) => (InFlight(id) # Resting(id))

C3_ExhaustedMessageIsLeftAlone ==
    CycleHitBudget =>
        /\ cyc.handler = 0
        /\ cyc.send = 0
        /\ cyc.delete = 0
        /\ cyc.err = 0
        /\ poll.pc = "idle"
        /\ ReceivedStillStored

\* A cycle has received the envelope of a job of Spec whose count equals the
\* budget.
C3_Witness ==
    /\ CycleHitBudget
    /\ cyc.body.id \in JobIds
    /\ cyc.body.attempted_count = config.MaxAttempts

(***************************************************************************)
(* C4.  Once the Handler has returned true for a job, the Handler is       *)
(* never invoked for it again and no envelope of it is sent again.  As     *)
(* claimed (DeleteMessage allowed to fail) it does not hold: when the      *)
(* delete of the received message fails, the message is redelivered and    *)
(* the Handler runs again.  It holds as long as no DeleteMessage has       *)
(* failed.                                                                 *)
(***************************************************************************)
\* This step invokes the Handler for id, or calls SendMessage for it.
TouchesJob(id) ==
    \/ InvokedCount'[id] # InvokedCount[id]
    \/ poll.pc = "send" /\ poll.message.ID = id /\ poll'.pc # "send"
    \/ job[id].pc = "send" /\ job'[id].pc # "send"

C5_FailedSendLeavesMessage ==
    (cyc.received /\ cyc.send > 0 /\ ~cyc.sendOk) =>
        /\ cyc.err = 1
        /\ cyc.delete = 0
        /\ ReceivedStillStored

(***************************************************************************)
(* C6.  A poll cycle that receives a message with a missing or malformed   *)
(* body calls the ErrorHandler exactly once and ends with the message      *)
(* left in the queue: no Handler, no SendMessage, no DeleteMessage.        *)
(***************************************************************************)
C6_BadBodyIsOnlyReported ==
    (cyc.received /\ ~WellFormed(cyc.body)) =>
        /\ cyc.err = 1
        /\ cyc.handler = 0
        /\ cyc.send = 0
        /\ cyc.delete = 0
        /\ poll.pc = "idle"
        /\ ReceivedStillStored

\* A cycle has received a message whose body is no JSON.
C6_Witness == cyc.received /\ cyc.body = MalformedBody /\ cyc.err = 1

(***************************************************************************)
(* C7.  The poll loop never terminates because of an error in one cycle:   *)
(* whenever a cycle has reported an error, control gets back to the loop,  *)
(* where the next ReceiveMessage is issued.                                *)
(***************************************************************************)
C7_LoopSurvivesErrors == (cyc.err > 0) ~> (poll.pc = "idle")

\* After a transport failure, a later cycle has received a message and is
\* about to work on it.
C7_Witness ==
    /\ TotalFaults > 0
    /\ cyc.received
    /\ cyc.err = 0
    /\ poll.pc = "work"

(***************************************************************************)
(* C8.  Every SendMessage call carries a DelaySeconds of at most           *)
(* MaxQueueDelaySeconds (900).  The code violates it: sendToQueue passes   *)
(* the whole seconds of NextAttempt - Now() as they are.                   *)
(***************************************************************************)
C8_SendDelayAtMostCeiling ==
    lastSend.called => lastSend.DelaySeconds <= MaxQueueDelaySeconds

(***************************************************************************)
(* The end of a test case of TestRetry, and what it measures.              *)
(***************************************************************************)
\* Job(0) has returned and pollOnce has been called numberOfPolls times.
TestDone ==
    /\ harness = "mock"
    /\ job[TestJobId].pc \in {"done", "failed"}
    /\ poll.pc = "idle"
    /\ mockSQS.ReceiveMessageInvokedCount = test.numberOfPolls

\* mockSQS.clock.Now().Sub(startTime): the mock clock starts at 0.
ElapsedTime == now

\* policy(1) + ... + policy(n)
RECURSIVE SumOfDelays(_, _)
SumOfDelays(policy, n) ==
    IF n = 0 THEN 0 ELSE SumOfDelays(policy, n - 1) + BackoffStrategy(policy, n)

\* What a test case compares with its expectations.
TestCounts(handler, receive, send, delete) ==
    /\ InvokedCount[TestJobId] = handler
    /\ mockSQS.ReceiveMessageInvokedCount = receive
    /\ mockSQS.SendMessageInvokedCount = send
    /\ mockSQS.DeleteMessageInvokedCount = delete

(***************************************************************************)
(* C9.  Oversized delay, cap and carry: when the delay D before the next   *)
(* attempt exceeds 900 seconds the envelope is re-enqueued ceil(D/900)     *)
(* times, each send delayed by at most 900 seconds, and the next Handler   *)
(* invocation happens when exactly D has elapsed.  D = 1000 s: 2 sends,    *)
(* 2 receives, 2 deletes, 2 Handler calls; D = 1 hour: 4 sends,            *)
(* 4 receives, 4 deletes, 2 Handler calls.  The code violates it: it       *)
(* sends the envelope once, with the whole delay.                          *)
(***************************************************************************)
C9_OversizedDelayIsCappedAndCarried ==
    (TestDone /\ config.MaxAttempts = 2 /\ test.succeedOnAttemptNumber = 2) =>
        /\ (/\ config.BackoffStrategy = [kind |-> "linear", seed |-> 1000 * Second]
            /\ test.numberOfPolls = 2)
              => /\ TestCounts(2, 2, 2, 2)
                 /\ ElapsedTime = 1000 * Second
                 /\ lastSend.DelaySeconds <= MaxQueueDelaySeconds
        /\ (/\ config.BackoffStrategy.kind = "hour"
            /\ test.numberOfPolls = 4)
              => /\ TestCounts(2, 4, 4, 4)
                 /\ ElapsedTime = Hour
                 /\ lastSend.DelaySeconds <= MaxQueueDelaySeconds

(***************************************************************************)
(* C10.  Budget exhaustion as tested: with MaxAttempts = N, a Handler      *)
(* that always returns false and delays below the queue ceiling, after     *)
(* Job(id) and N poll cycles the Handler has been invoked N times,         *)
(* ReceiveMessage N times, SendMessage N times, DeleteMessage N-1 times,   *)
(* and the elapsed time is policy(1) + ... + policy(N).  The code          *)
(* violates the elapsed time: computeMessageDelay multiplies the policy's  *)
(* delay, already a Duration, by time.Second.                              *)
(***************************************************************************)
\* Linear policies of the tests whose delays stay below the ceiling.
SmallDelayPolicy ==
    /\ config.BackoffStrategy.kind = "linear"
    /\ config.BackoffStrategy.seed \in {4 * Second, 10 * Second}

C10_BudgetExhaustionAsTested ==
    (/\ TestDone
     /\ SmallDelayPolicy
     /\ test.succeedOnAttemptNumber > config.MaxAttempts
     /\ test.numberOfPolls = config.MaxAttempts)
        => /\ TestCounts(config.MaxAttempts, config.MaxAttempts,
                         config.MaxAttempts, config.MaxAttempts - 1)
           /\ ElapsedTime = SumOfDelays(config.BackoffStrategy, config.MaxAttempts)

(***************************************************************************)
(* C11.  Budget exhaustion as the design states it: with MaxAttempts = N   *)
(* and a Handler that always returns false, after Job(id) and N-1 poll     *)
(* cycles there have been N Handler invocations, N-1 sends, N-1 receives   *)
(* and N-2 deletes.  The counts are off by one: Job itself sends the       *)
(* envelope and each of the N-1 cycles sends and deletes, so there are     *)
(* N sends and N-1 deletes, and none of these cycles hits the budget (the  *)
(* N-th cycle does).                                                       *)
(***************************************************************************)
\* The test case: budget N >= 2, the Handler never succeeds, N-1 polls done.
BudgetScenario ==
    /\ TestDone
    /\ config.MaxAttempts >= 2
    /\ test.succeedOnAttemptNumber > config.MaxAttempts
    /\ test.numberOfPolls = config.MaxAttempts - 1

RetryScenario ==
    /\ TestDone
    /\ SmallDelayPolicy
    /\ test.numberOfPolls >= 1
    /\ test.succeedOnAttemptNumber = test.numberOfPolls + 1
    /\ test.succeedOnAttemptNumber <= config.MaxAttempts

C12_RetryUntilSuccess ==
    RetryScenario =>
        /\ TestCounts(test.numberOfPolls + 1, test.numberOfPolls,
                      test.numberOfPolls, test.numberOfPolls)
        /\ ElapsedTime = SumOfDelays(config.BackoffStrategy, test.numberOfPolls)

\* The counts of the scenario alone, which the code does produce.
C12_Counts ==
    RetryScenario =>
        TestCounts(test.numberOfPolls + 1, test.numberOfPolls,
                   test.numberOfPolls, test.numberOfPolls)

(***************************************************************************)
(* C13.  Immediate first attempt: Job(id) creates an envelope with         *)
(* AttemptedCount = 0 and NextAttempt = now and, the policy giving         *)
(* policy(0) = 0, invokes the Handler exactly once before any queue        *)
(* operation; if that invocation returns true, Job returns nil with no     *)
(* send, no receive, no delete and no elapsed time.                        *)
(***************************************************************************)
C13_ImmediateFirstAttempt ==
    /\ job[TestJobId].pc = "new" =>
          /\ NewMessage(TestJobId).AttemptedCount = 0
          /\ NewMessage(TestJobId).NextAttempt = now
    /\ job[TestJobId].pc = "send" =>
          /\ InvokedCount[TestJobId] = 1
          /\ ~lastSend.called
          /\ TestCounts(1, 0, 0, 0)
    /\ (job[TestJobId].pc # "new" /\ test.succeedOnAttemptNumber <= 1) =>
          /\ job[TestJobId].pc = "done"
          /\ complete[TestJobId]
          /\ InvokedCount[TestJobId] = 1
          /\ mockSQS.SendMessageInvokedCount = 0
          /\ mockSQS.DeleteMessageInvokedCount = 0
          /\ storage = {}
          /\ ElapsedTime = 0
    /\ (TestDone /\ test.succeedOnAttemptNumber <= 1 /\ test.numberOfPolls = 0) =>
          TestCounts(1, 0, 0, 0)

\* Job(0) has returned nil after a Handler that succeeded at once.
C13_Witness ==
    /\ TestDone
    /\ test.numberOfPolls = 0
    /\ test.succeedOnAttemptNumber = 0
    /\ job[TestJobId].pc = "done"
    /\ InvokedCount[TestJobId] = 1

(***************************************************************************)
(* C14.  With a dead-letter redrive policy of exactly 1 Maximum Receives,  *)
(* a job whose Handler does not return true within MaxAttempts             *)
(* invocations ends in the dead-letter queue exactly once: its final       *)
(* message is moved there, after which no message of the job is left in    *)
(* the main queue and the Handler is not invoked for it again; and no      *)
(* message of a job is moved there before its budget is exhausted.  As a   *)
(* state property: a submitted, incomplete job with a budget always has    *)
(* its envelope somewhere (in flight, in the queue or dead-lettered); at   *)
(* most one message of a job is dead-lettered, only with its budget        *)
(* exhausted, and then nothing of the job is in the queue or in flight.    *)
(* The code violates it: after a failed SendMessage pollOnce deletes the   *)
(* received message and the job is in no queue at all; after a failed      *)
(* DeleteMessage the old copy is dead-lettered while the job goes on.      *)
(***************************************************************************)
\* Job(id) has returned nil or is about to send, and the Handler has not
\* returned true for the job.
Submitted(id) == job[id].pc \in {"send", "done"} /\ ~complete[id]

DeadLettered(id) ==
    {m \in dlq.messages : WellFormed(m.body) /\ m.body.id = id}

Queued(id) == {m \in storage : WellFormed(m.body) /\ m.body.id = id}

InCycle(id) == poll.pc # "idle" /\ poll.message.ID = id

C14_DeadLetteredExactlyOnce ==
    \A id \in JobIds :
        /\ (Submitted(id) /\ config.MaxAttempts > 0) =>
              \/ job[id].pc = "send"
              \/ InCycle(id)
              \/ Queued(id) # {}
              \/ DeadLettered(id) # {}
        /\ (Submitted(id) /\ config.MaxAttempts > 0) =>
              /\ Cardinality(DeadLettered(id)) <= 1
              /\ \A m \in DeadLettered(id) :
                    /\ m.body.attempted_count >= config.MaxAttempts
                    /\ Queued(id) = {}
                    /\ ~InCycle(id)

\* The same when no SendMessage or DeleteMessage has failed so far.
C14_WithoutTransportFailures ==
    (faults.send = 0 /\ faults.delete = 0) => C14_DeadLetteredExactlyOnce

(***************************************************************************)
(* C15.  Reconciling an envelope that is not yet due is idempotent: when   *)
(* NextAttempt - now exceeds the threshold of 5 seconds,                   *)
(* computeMessageDelay returns the envelope unchanged with skip = true,    *)
(* and calling it again with an unchanged clock changes neither            *)
(* AttemptedCount nor NextAttempt.                                         *)
(***************************************************************************)
\* The last call found the envelope more than the threshold before its time.
ReconciledNotDue ==
    /\ reconciled.calls > 0
    /\ TimeSub(reconciled.before.NextAttempt, reconciled.at)
         > DueThresholdSeconds * Second

C15_NotDueReconcileIsIdempotent ==
    ReconciledNotDue =>
        /\ reconciled.skip
        /\ reconciled.after = reconciled.before
        /\ now = reconciled.at =>
              computeMessageDelay(reconciled.after, now)
                = [message |-> reconciled.before, skip |-> TRUE]

\* Three calls in a row, the clock unchanged, on an envelope that is not due.
C15_Witness ==
    /\ ReconciledNotDue
    /\ reconciled.calls = MaxCalls
    /\ now = 0
    /\ reconciled.before.AttemptedCount > 0

(***************************************************************************)
(* C16.  Across the lifetime of an envelope AttemptedCount never           *)
(* decreases: a reconciliation that finds the job due adds exactly 1, and  *)
(* every other step leaves it as it is: a reconciliation that finds it     *)
(* not due, the serialisation into the body sent to the queue, and the     *)
(* deserialisation of a received body.                                     *)
(***************************************************************************)
\* 1 when computeMessageDelay, called now, finds the envelope due, else 0.
DueIncrement(message) ==
    IF TimeSub(message.NextAttempt, now) > DueThresholdSeconds * Second THEN 0 ELSE 1

C16_AttemptedCountStep ==
    [][/\ \A id \in JobIds :
            /\ (job[id].pc = "new" /\ job'[id].pc # "new") =>
                  job'[id].message.AttemptedCount = 0 + DueIncrement(NewMessage(id))
            /\ (job[id].pc = "send" /\ job'[id].pc # "send") =>
                  lastSend'.body.attempted_count = job[id].message.AttemptedCount
       /\ (poll.pc = "idle" /\ poll'.pc = "work") =>
             poll'.message.AttemptedCount = cyc'.body.attempted_count
       /\ (poll.pc = "work" /\ poll'.pc # "work") =>
             poll'.message.AttemptedCount
               = poll.message.AttemptedCount + DueIncrement(poll.message)
       /\ (poll.pc = "send" /\ poll'.pc # "send") =>
             lastSend'.body.attempted_count = poll.message.AttemptedCount
       /\ \A m \in storage \cap storage' :
             \A n \in storage' : n.handle = m.handle => n.body = m.body
      ]_vars

\* The envelope of a job has been through Job, the queue and a poll cycle that
\* found it due, and is about to be sent for the second time.
C16_Witness ==
    /\ poll.pc = "send"
    /\ poll.message.ID \in JobIds
    /\ poll.message.AttemptedCount = 2
    /\ cyc.handler = 1

(***************************************************************************)
(* C17.  NextAttempt of an envelope never decreases: for every policy      *)
(* that returns non-negative delays and every sequence of                  *)
(* reconciliations, NextAttempt after a call is at least what it was       *)
(* before, with the delay arithmetic done on bounded durations.  The code  *)
(* violates it: time.Duration(delay) * time.Second overflows for a delay   *)
(* of some seconds and the sum goes back in time.                          *)
(***************************************************************************)
\* The delay the policy returned in the last call was not negative.
PolicyDelayNonNegative ==
    BackoffStrategy(config.BackoffStrategy, reconciled.before.AttemptedCount + 1) >= 0

C17_NextAttemptNeverDecreases ==
    (reconciled.calls > 0 /\ PolicyDelayNonNegative) =>
        reconciled.after.NextAttempt >= reconciled.before.NextAttempt

(***************************************************************************)
(* C18.  A reconciliation that finds the job due sets NextAttempt to       *)
(* exactly its previous value plus policy(AttemptedCount after the         *)
(* increment), the delay taken in the unit the policy returns it in.  The  *)
(* code violates it: it adds the delay multiplied by time.Second.          *)
(***************************************************************************)
C18_NextAttemptAdvancesByPolicyDelay ==
    (reconciled.calls > 0 /\ ~reconciled.skip) =>
        /\ reconciled.after.AttemptedCount = reconciled.before.AttemptedCount + 1
        /\ reconciled.after.NextAttempt
             = reconciled.before.NextAttempt
                 + BackoffStrategy(config.BackoffStrategy,
                                   reconciled.after.AttemptedCount)

(***************************************************************************)
(* C19.  Job(id) may run concurrently with the poll loop and with other    *)
(* Job calls: a step of Job writes nothing the poll loop or another Job    *)
(* call holds (the Retrier's config and clock are only read), a step of    *)
(* pollOnce writes nothing of a job other than the one whose envelope it   *)
(* holds, and under every interleaving each job's envelope goes through    *)
(* the counts 1, 2, 3, ... one Handler invocation each, as it does when    *)
(* the calls run one after the other.                                      *)
(***************************************************************************)
\* The job's messages resting in the queue after the step.
RestingAfter(id) ==
    {m \in storage' :
        /\ WellFormed(m.body)
        /\ m.body.id = id
        /\ ~(poll'.pc # "idle" /\ m.handle = poll'.sqsMessage.handle)}

\* The step leaves everything of the job `other` as it was.
LeavesAlone(other) ==
    /\ job'[other] = job[other]
    /\ InvokedCount'[other] = InvokedCount[other]
    /\ complete'[other] = complete[other]
    /\ \A m \in RestingMessages(other) : m \in storage'
    /\ \A m \in RestingAfter(other) : m \in storage

\* Every representation of the job's envelope carries the number of Handler
\* invocations made for the job so far.
CountIsInvocations(id) ==
    /\ job[id].pc = "send" => job[id].message.AttemptedCount = InvokedCount[id]
    /\ (poll.pc \in {"work", "send"} /\ poll.message.ID = id) =>
          poll.message.AttemptedCount = InvokedCount[id]
    /\ \A m \in RestingMessages(id) : m.body.attempted_count = InvokedCount[id]

C19_JobIsSafeBesideThePollLoop ==
    [][/\ config' = config
       /\ \A id \in Ids :
            /\ job'[id] # job[id] =>
                  /\ poll' = poll
                  /\ cyc' = cyc
                  /\ now' = now
                  /\ \A other \in Ids \ {id} : LeavesAlone(other)
            /\ (poll' # poll /\ (poll.message.ID = id \/ poll'.message.ID = id)) =>
                  \A other \in Ids \ {id} : LeavesAlone(other)
            /\ CountIsInvocations(id)'
      ]_vars

\* Job(1) is between its Handler call and its send while the poll loop works
\* on the envelope of job 0, which has been through the queue twice.
C19_Witness ==
    /\ job[1].pc = "send"
    /\ poll.pc = "send"
    /\ poll.message.ID = 0
    /\ poll.message.AttemptedCount = 3

(***************************************************************************)
(* C20.  MaxAttempts = 0 means unlimited: the budget check skips no        *)
(* received message, whatever its AttemptedCount; every evaluation that    *)
(* finds the envelope due invokes the Handler, and the envelope of a job   *)
(* that is not complete is handed to SendMessage again, with the next      *)
(* attempt number.                                                         *)
(***************************************************************************)
\* A cycle that received a well-formed message is back in the loop only after
\* it has gone all the way to the delete.
NeverSkipped ==
    (cyc.received /\ WellFormed(cyc.body) /\ poll.pc = "idle") =>
        /\ cyc.delete = 1
        /\ cyc.handler + cyc.send >= 1

C20_ZeroBudgetIsUnlimited ==
    [][config.MaxAttempts = 0 =>
         /\ NeverSkipped'
         /\ (poll.pc = "idle" /\ poll'.pc # "idle") => poll'.pc = "work"
         /\ (poll.pc = "work" /\ poll'.pc # "work") =>
               /\ DueIncrement(poll.message) = 1 =>
                     InvokedCount'[poll.message.ID] = InvokedCount[poll.message.ID] + 1
               /\ ~complete'[poll.message.ID] => poll'.pc = "send"
         /\ (poll.pc = "send" /\ poll'.pc # "send") =>
               /\ lastSend'.called
               /\ lastSend'.body = Marshal(poll.message)
      ]_vars

\* With no budget, the envelope of a job is sent for its attempt number
\* MaxCount, beyond every budget Spec configures.
C20_Witness ==
    /\ config.MaxAttempts = 0
    /\ poll.pc = "delete"
    /\ poll.message.ID \in JobIds
    /\ poll.message.AttemptedCount = MaxCount
    /\ MaxCount > MaxBudget
    /\ cyc.send = 1

(***************************************************************************)
(* C21.  For each of the three stock policies (constant, linear,           *)
(* exponential) and every seed delay, the delay for attempt 0 is 0.        *)
(***************************************************************************)
C21_AttemptZeroIsImmediate ==
    (backoffCase.called /\ backoffCase.attempt = 0) => backoffCase.got = 0

\* The linear policy, which has no branch for attempt 0, called with attempt
\* 0 and a seed of one hour.
C21_Witness ==
    /\ backoffCase.called
    /\ backoffCase.attempt = 0
    /\ config.BackoffStrategy = [kind |-> "linear", seed |-> Hour]

(***************************************************************************)
(* C22.  ExponentialBackoff(seed)(n) = seed * 2^(n-1) for every attempt    *)
(* n >= 1, within the range where the result does not overflow the         *)
(* duration type.                                                          *)
(***************************************************************************)
\* The value is one a Duration holds.
InDuration(x) == x >= MinDuration /\ x <= MaxDuration

\* The policy `kind` has been called with an attempt number of at least 1.
CalledLater(kind) ==
    /\ backoffCase.called
    /\ config.BackoffStrategy.kind = kind
    /\ backoffCase.attempt >= 1

C22_ExponentialDoubles ==
    (/\ CalledLater("exponential")
     /\ InDuration(config.BackoffStrategy.seed * 2^(backoffCase.attempt - 1)))
        => backoffCase.got = config.BackoffStrategy.seed * 2^(backoffCase.attempt - 1)

\* TestExponential's case: a seed of 3 minutes, attempt 3, 12 minutes.
C22_Witness ==
    /\ CalledLater("exponential")
    /\ config.BackoffStrategy.seed = 3 * Minute
    /\ backoffCase.attempt = 3
    /\ backoffCase.got = 12 * Minute

(***************************************************************************)
(* C23.  LinearBackoff(seed)(n) = seed * n for every attempt n >= 0.  As   *)
(* claimed, for every n, it does not hold: the product is a Duration and   *)
(* wraps around when seed * n is beyond the largest Duration.  It holds    *)
(* within the range where seed * n does not overflow the duration type.    *)
(***************************************************************************)
C23_LinearMultiplies_Original ==
    (backoffCase.called /\ config.BackoffStrategy.kind = "linear")
        => backoffCase.got = config.BackoffStrategy.seed * backoffCase.attempt

C23_LinearMultiplies ==
    (/\ backoffCase.called
     /\ config.BackoffStrategy.kind = "linear"
     /\ InDuration(config.BackoffStrategy.seed * backoffCase.attempt))
        => backoffCase.got = config.BackoffStrategy.seed * backoffCase.attempt

\* TestLinear's case: a seed of 3 minutes, attempt 3, 9 minutes.
C23_Witness ==
    /\ CalledLater("linear")
    /\ config.BackoffStrategy.seed = 3 * Minute
    /\ backoffCase.attempt = 3
    /\ backoffCase.got = 9 * Minute

(***************************************************************************)
(* C24.  ConstantBackoff(seed)(n) = seed for every attempt n >= 1,         *)
(* whatever n is.                                                          *)
(***************************************************************************)
C24_ConstantIsTheSeed ==
    CalledLater("constant") => backoffCase.got = config.BackoffStrategy.seed

\* The constant policy called with the largest attempt number and a seed of
\* one hour.
C24_Witness ==
    /\ CalledLater("constant")
    /\ backoffCase.attempt = MaxAttemptNumber
    /\ config.BackoffStrategy.seed = Hour

(***************************************************************************)
(* C25.  In a poll cycle that receives a well-formed message that passes   *)
(* the budget check, the received message is deleted only after its fate   *)
(* has been decided and acted upon: the Handler returned true, or the      *)
(* replacement envelope was successfully sent; never before, and           *)
(* DeleteMessage is called at most once in the cycle.  The code violates   *)
(* it: pollOnce deletes the received message also after the SendMessage    *)
(* of the replacement failed.                                              *)
(***************************************************************************)
\* The cycle is about to call DeleteMessage, or has called it.
CycleDeletes == poll.pc = "delete" \/ cyc.delete > 0

\* The Handler returned true in this cycle (workMessage sent nothing), or the
\* replacement envelope is in the queue.
FateActedUpon ==
    \/ cyc.handler = 1 /\ cyc.send = 0
    \/ cyc.send = 1 /\ cyc.sendOk

C25_DeleteOnlyAfterFate ==
    (cyc.received /\ CycleDeletes) =>
        /\ FateActedUpon
        /\ cyc.delete <= 1

\* What the code does keep: the delete comes after workMessage, once.
C25_DeleteAfterWorkOnce ==
    (cyc.received /\ CycleDeletes) =>
        /\ cyc.handler + cyc.send >= 1
        /\ cyc.delete <= 1

(***************************************************************************)
(* C26.  When a poll cycle receives an envelope that is not yet due, the   *)
(* Handler is not invoked and the envelope is handed to SendMessage        *)
(* unchanged (same attempted count, same next attempt time), with a        *)
(* delivery delay equal to the whole seconds of next attempt time minus    *)
(* the time of the send.                                                   *)
(***************************************************************************)
\* The slack of a received body at time t, in whole seconds.
SlackSeconds(body, t) == WholeSeconds(TimeSub(body.next_attempt, t))

\* The poll cycle found its envelope not yet due and is about to send it.
SendsNotDue == poll.pc = "send" /\ cyc.handler = 0

C26_NotDueIsResentUnchanged ==
    [][/\ (poll.pc = "work" /\ poll'.pc # "work"
              /\ TimeSub(cyc.body.next_attempt, now) > DueThresholdSeconds * Second) =>
             /\ InvokedCount' = InvokedCount
             /\ cyc'.handler = 0
             /\ poll'.pc = "send"
       /\ (SendsNotDue /\ poll'.pc # "send") =>
             /\ lastSend'.body = cyc.body
             /\ lastSend'.DelaySeconds = SlackSeconds(cyc.body, now)
             /\ cyc'.send = 1]_vars

C26_Witness ==
    /\ cyc.received
    /\ cyc.handler = 0
    /\ cyc.send = 1
    /\ poll.pc = "delete"
    /\ lastSend.body = cyc.body
    /\ lastSend.DelaySeconds > 0
    /\ lastSend.DelaySeconds = SlackSeconds(cyc.body, now)

(***************************************************************************)
(* C27.  When the Handler returns false for a due envelope, exactly one    *)
(* SendMessage is issued for it; its body is the mutated envelope          *)
(* (attempted count one more, next attempt time later than before) and its *)
(* delivery delay is the whole seconds of the new next attempt time minus  *)
(* the time of the send.                                                   *)
(***************************************************************************)
\* The poll cycle invoked the Handler, which returned false, and is about to
\* send the envelope.
SendsIncomplete == poll.pc = "send" /\ cyc.handler = 1

PendingPollDelay ==
    IF harness = "builder"
    THEN builder_DelaySeconds(poll.delay, ElapsedSeconds(poll.message.ID))
    ELSE DelaySeconds(poll.message, now)

PendingJobDelay(id) ==
    IF harness = "builder"
    THEN builder_DelaySeconds(job[id].delay, ElapsedSeconds(id))
    ELSE DelaySeconds(job[id].message, now)

\* The clock advances between the Handler's answer and the send.
PollHandlerTakesTime ==
    poll.pc = "send" /\ cyc.handler = 1 /\ poll' = poll /\ now' > now

JobHandlerTakesTime(id) ==
    job[id].pc = "send" /\ job'[id] = job[id] /\ now' > now

DelayIgnoresWorkTime ==
    /\ PollHandlerTakesTime => PendingPollDelay' = PendingPollDelay
    /\ \A id \in Ids :
         JobHandlerTakesTime(id) => PendingJobDelay(id)' = PendingJobDelay(id)

\* The Retrier: the pending delay shrinks, and while it is not negative the
\* send would make the message visible within a second before NextAttempt.
VisibleAtNextAttempt(message, t, delaySeconds) ==
    TimeSub(message.NextAttempt, t) >= 0 =>
        /\ t + delaySeconds * Second <= message.NextAttempt
        /\ t + delaySeconds * Second > message.NextAttempt - Second

DelayAbsorbsWorkTime ==
    /\ PollHandlerTakesTime =>
          /\ PendingPollDelay' <= PendingPollDelay
          /\ VisibleAtNextAttempt(poll.message, now', PendingPollDelay')
    /\ \A id \in Ids :
         JobHandlerTakesTime(id) =>
            /\ PendingJobDelay(id)' <= PendingJobDelay(id)
            /\ VisibleAtNextAttempt(job[id].message, now', PendingJobDelay(id)')

CappedDelay(delay) ==
    IF delay > MaxQueueDelaySeconds THEN MaxQueueDelaySeconds ELSE delay

\* The builder's send after an incomplete attempt: the delay is the policy's
\* (capped), and the replacement becomes visible that long after the send.
builderSendsPolicyDelay ==
    (poll.pc = "send" /\ cyc.handler = 1 /\ poll'.pc # "send") =>
        LET delay == CappedDelay(builder_BackoffStrategy(config.BackoffStrategy,
                                                         poll.message.AttemptedCount))
        IN  /\ lastSend'.DelaySeconds = delay
            /\ \A m \in storage' \ storage : m.visibleAt = now + delay * Second

CycleWorks == poll.pc = "work" /\ poll'.pc # "work"

CarriedRemainderStep ==
    /\ lastSend'.called => lastSend'.DelaySeconds <= MaxQueueDelaySeconds
    /\ CycleWorks =>
         LET id == poll.message.ID
             k == cyc.body.attempted_count
         IN  /\ InvokedCount'[id] # InvokedCount[id] =>
                   /\ cyc.body.accumulated_delay = 0
                   /\ sinceHandler'[id].k = k + 1
                   /\ (sinceHandler[id].k = k /\ k >= 1) =>
                         /\ sinceHandler[id].sends >= 1
                         /\ sinceHandler[id].sum
                              = builder_BackoffStrategy(config.BackoffStrategy, k)
             /\ InvokedCount'[id] = InvokedCount[id] =>
                   /\ cyc.body.accumulated_delay > 0
                   /\ poll'.pc = "send"
                   /\ poll'.message.AdditionalDelay < cyc.body.accumulated_delay
                   /\ poll'.message.AttemptedCount = k

C29_CarriedRemainder == [][CarriedRemainderStep]_vars

C29_Witness ==
    /\ harness = "builder"
    /\ cyc.handler = 1
    /\ cyc.body.accumulated_delay = 0
    /\ \E id \in JobIds :
         /\ cyc.body.id = id
         /\ sinceHandler[id].k = 3
         /\ sinceHandler[id].prevK = 2
         /\ sinceHandler[id].prevSends = 3
         /\ sinceHandler[id].prevSum = 2000

(***************************************************************************)
(* C30.  Without failures and with a single consumer, the k-th Handler     *)
(* invocation for a job receives AttemptedCount = k: the first sees 1,     *)
(* consecutive invocations see consecutive values, and with                *)
(* MaxAttempts = N > 0 the Handler is never invoked with a count above N.  *)
(***************************************************************************)
\* The count the Handler was given in this step, for the job it was invoked
\* for by Job(id) or by the poll cycle.
JobInvokes(id) == job[id].pc = "new" /\ job'[id].pc # "new"

PollInvokes(id) ==
    /\ poll.pc = "work"
    /\ poll.message.ID = id
    /\ InvokedCount'[id] = InvokedCount[id] + 1

WithinBudget(count) == config.MaxAttempts > 0 => count <= config.MaxAttempts

C30_KthInvocationSeesK ==
    [][\A id \in Ids :
          /\ JobInvokes(id) =>
                /\ InvokedCount[id] = 0
                /\ InvokedCount'[id] = 1
                /\ job'[id].message.AttemptedCount = 1
          /\ PollInvokes(id) =>
                /\ poll'.message.AttemptedCount = InvokedCount'[id]
                /\ poll'.message.AttemptedCount = cyc.body.attempted_count + 1
                /\ WithinBudget(poll'.message.AttemptedCount)]_vars

C30_Witness ==
    /\ harness = "conc"
    /\ config.MaxAttempts = MaxBudget
    /\ poll.pc \in {"send", "delete"}
    /\ cyc.handler = 1
    /\ poll.message.AttemptedCount = MaxBudget
    /\ InvokedCount[poll.message.ID] = MaxBudget

(***************************************************************************)
(* C31.  The DelaySeconds passed to SendMessage is never negative,         *)
(* whatever the clock and the envelope: also when the envelope is sent     *)
(* later than its NextAttempt.  The code violates it: sendToQueue passes   *)
(* the whole seconds of NextAttempt - Now() as they are.                   *)
(***************************************************************************)
C31_SendDelayNeverNegative ==
    lastSend.called => lastSend.DelaySeconds >= 0

(***************************************************************************)
(* C32.  The schedule does not accumulate drift: for a job submitted at    *)
(* time t0, after k due reconciliations NextAttempt equals                 *)
(* t0 + policy(0) + policy(1) + ... + policy(k), whatever the clock was    *)
(* when the envelope was received, evaluated or sent.  The code violates   *)
(* it: each due reconciliation adds policy(k) multiplied by time.Second.   *)
(***************************************************************************)
\* The envelopes in the queue that a Job call of this Retrier has started.
JobEnvelopes ==
    {m.body : m \in {s \in storage : WellFormed(s.body) /\ s.body.id \in JobIds}}

C32_ScheduleHasNoDrift ==
    \A body \in JobEnvelopes :
        body.next_attempt
          = body.received_time
              + BackoffStrategy(config.BackoffStrategy, 0)
              + SumOfDelays(config.BackoffStrategy, body.attempted_count)

\* policy(1) * time.Second + ... + policy(n) * time.Second
RECURSIVE SumOfScaledDelays(_, _)
SumOfScaledDelays(policy, n) ==
    IF n = 0 THEN 0
    ELSE SumOfScaledDelays(policy, n - 1)
           + MulDur(BackoffStrategy(policy, n), Second)

\* What the code does keep: NextAttempt is a function of the submission time
\* and the count alone, not of the clock.
C32_ScheduleIsAnchored ==
    \A body \in JobEnvelopes :
        body.next_attempt
          = body.received_time
              + BackoffStrategy(config.BackoffStrategy, 0)
              + SumOfScaledDelays(config.BackoffStrategy, body.attempted_count)

(***************************************************************************)
(* C33.  Liveness: without transport errors, with the queue delivering     *)
(* every resting message and the poll loop running, a job whose Handler    *)
(* returns true on its k-th invocation, k <= MaxAttempts or                *)
(* MaxAttempts = 0, eventually completes, and from then on the queue       *)
(* holds no message for the job.  The code violates it: a delay above      *)
(* MaxQueueDelaySeconds is sent as it is, the queue refuses it and the job *)
(* is dropped.                                                             *)
(***************************************************************************)
\* The Handler's first true answer is within the budget.
SucceedsWithinBudget ==
    config.MaxAttempts = 0 \/ test.succeedOnAttemptNumber <= config.MaxAttempts

QueueHoldsNone(id) ==
    \A m \in storage : WellFormed(m.body) => m.body.id # id

CompletedAndGone(id) == complete[id] /\ QueueHoldsNone(id)

C33_JobEventuallyCompletes ==
    \A id \in JobIds : SucceedsWithinBudget => <>[]CompletedAndGone(id)

\* What the code does keep: the same, for a policy whose delays the queue
\* accepts.
DelaysInRange == config.BackoffStrategy.kind # "constant"

C33_CompletesWhenDelaysInRange ==
    \A id \in JobIds :
        (SucceedsWithinBudget /\ DelaysInRange) => <>[]CompletedAndGone(id)

====
